---- MODULE Spec2Model ----
(***************************************************************************)
(* Model of the keyboard throttle controller, class DroneThrustControl of  *)
(* src/油门控制.py, and of the script's main block.                        *)
(*                                                                         *)
(* The program is a set of threads over one shared object:                 *)
(*   Cb      the flight library's thread that delivers the four lifecycle  *)
(*           notifications (_connected, _disconnected, _connection_failed, *)
(*           _connection_lost), one at a time;                             *)
(*   Ctl(n)  the control thread started by the n-th _connected;            *)
(*   Key(n)  the thread of the keyboard listener started by the n-th       *)
(*           _connected, which runs _on_key_press;                         *)
(*   Main    the main thread of the script.                                *)
(* The flight library and the keyboard library are the environment: the    *)
(* notifications, the key presses, the operator interrupt and the failure  *)
(* of a send_setpoint or close_link call are nondeterministic inputs.  The *)
(* sleeps of the code are scheduling points and take no step of their own. *)
(***************************************************************************)
EXTENDS Integers, FiniteSets, Sequences, TLC

\* ------------------------------------------------------------ constants
\* DroneThrustControl.__init__
INITIAL_THRUST == 20000
thrust_step == 500
MIN_THRUST == 10000
MAX_THRUST == 60000
\* _control_loop: self._send_stop_command(5)
ArmingBurst == 5
\* _safe_shutdown: self._send_stop_command(30)
ShutdownBurst == 30

\* --------------------------------------------------------------- bounds
\* _connected notifications the library delivers in one run
MaxConnected == 2
\* events of the environment in one run, _connected apart: _disconnected,
\* _connection_failed and _connection_lost notifications, send_setpoint
\* and close_link calls that raise, key presses, the interrupt
MaxEvents == 2

Min(a, b) == IF a < b THEN a ELSE b
Max(a, b) == IF a > b THEN a ELSE b

\* ------------------------------------------------------------- threads
Sessions == 1..MaxConnected
Cb == <<"cb", 0>>
Main == <<"main", 0>>
Ctl(n) == <<"ctl", n>>
Key(n) == <<"key", n>>
CtlThreads == {Ctl(n) : n \in Sessions}
KeyThreads == {Key(n) : n \in Sessions}
\* the threads that can run _safe_shutdown
SdThreads == {Cb} \cup CtlThreads
\* the threads that can run _quit_program
QuitThreads == {Main} \cup KeyThreads
Threads == SdThreads \cup QuitThreads

Keys == {"up", "down", "esc", "other"}

VARIABLES
    thrust,          \* self.thrust
    is_connected,    \* self._is_connected
    is_running,      \* self._is_running
    control_thread,  \* self._control_thread: 0 is None, n is Ctl(n)
    listener,        \* self._listener: 0 is None, n the n-th Listener
    lst,             \* the Listener objects: "none", "running", "stopped"
    pc,              \* where each thread is
    i,               \* send_setpoint calls of a thread's current stop burst
    tmp,             \* a key thread's computed thrust, not yet stored
    join_on,         \* the control thread a _quit_program has joined on
    exited,          \* the process has exited
    cap,             \* what the environment may do (fixed by Init): _connected
                     \* notifications, other events, arrow keys the
                     \* handler acts on not counted
    n,               \* what the environment has done
    sd,              \* history of each thread's latest _safe_shutdown
    hist             \* history of the session (never read by the program)

vars == <<thrust, is_connected, is_running, control_thread, listener, lst,
          pc, i, tmp, join_on, exited, cap, n, sd, hist>>

shared == <<thrust, is_connected, is_running, control_thread, listener, lst>>

\* ------------------------------------------------------ pure fragments
KeyGuardRunningOnly(run, conn) == run

\* _on_key_press: the guard of the handler
KeyGuard(run, conn) == run /\ conn

KeyBranchElseUp(k) == IF k \in {"down", "esc"} THEN k ELSE "up"

\* _on_key_press: the if/elif chain over the key; any other key falls
\* through it
KeyBranch(k) == IF k \in {"up", "down", "esc"} THEN k ELSE "return"

IncreaseThrustUnclamped(t) == t + thrust_step

\* _on_key_press: Key.up
IncreaseThrust(t) == Min(t + thrust_step, MAX_THRUST)

DecreaseThrustUnclamped(t) == t - thrust_step

\* _on_key_press: Key.down
DecreaseThrust(t) == Max(t - thrust_step, MIN_THRUST)

CloseGuardNegated(conn) == ~conn

CloseGuardDropped(conn) == TRUE

\* _safe_shutdown: if self._is_connected: close_link()
CloseGuard(conn) == conn

CloseErrorRaised == FALSE

\* _safe_shutdown: try: close_link() except Exception: print(...)
CloseErrorCaught == TRUE

ReconnectsOnLoss(event) == event = "lost"

\* _connection_failed, _connection_lost, _disconnected, _safe_shutdown: the
\* body of none of them calls open_link
Reconnects(event) == FALSE

ControlLoopSkipsBurst == "loop_test"

\* _control_loop: the first statement is self._send_stop_command(5)
ControlLoopEntry == "init_burst"

ContinueOnFailure == FALSE

\* _send_stop_command: except Exception: break
BreakOnFailure == TRUE

\* _safe_shutdown: if self._listener and self._listener.running
ListenerGuard(l, objs) == l # 0 /\ objs[l] = "running"

\* _quit_program: if self._control_thread and self._control_thread.is_alive()
Alive(t) == pc[t] \notin {"unborn", "done"}
JoinGuard(ct) == ct # 0 /\ Alive(Ctl(ct))

\* ---------------------------------------------------------------- Init
InitHist == [
    late_thrust |-> FALSE,    \* a periodic setpoint was sent after lost_fired
    faulted |-> FALSE,        \* a send has raised, or a notification other
                              \* than _connected or the interrupt has come
    second_writer |-> FALSE,  \* a shutdown burst sent a setpoint while the
                              \* control loop of another thread was looping
    sd_calls |-> 0,           \* _safe_shutdown invocations
    full_bursts |-> 0,        \* shutdown bursts that sent all their setpoints
    close_calls |-> 0,        \* close_link calls
    lost_fired |-> FALSE,     \* _connection_lost has been called
    ended |-> FALSE,          \* a terminal event has happened
    quit_key |-> FALSE,       \* an escape press has reached _quit_program
    other_key |-> FALSE,      \* a key other than up, down, escape has come
    off_key |-> FALSE,        \* a key has come with a flag of the guard down
    open_calls |-> 1,         \* open_link calls: __init__ makes the first
    last_sent |-> "none",     \* the latest setpoint sent: "stop", "thrust"
    sent_closed |-> FALSE     \* send_setpoint was called after a close_link
]

\* the history after a send_setpoint call that sent a setpoint of this kind
Sent(h, kind) == [h EXCEPT !.last_sent = kind,
                           !.sent_closed = @ \/ h.close_calls > 0]

\* the history after a send_setpoint call that raised
SendRaised(h) == [h EXCEPT !.faulted = TRUE,
                           !.sent_closed = @ \/ h.close_calls > 0]

\* the history after the handler of this event has run its own statements
Handled(h, event) ==
    [h EXCEPT !.open_calls = IF Reconnects(event) THEN @ + 1 ELSE @]

\* one _safe_shutdown invocation: why it runs, a send of its burst has
\* raised, its burst sent every setpoint, it has called close_link, it has
\* passed the close step, its close_link call has raised, an exception has
\* left it
NoShutdown == [cause |-> "none", aborted |-> FALSE, full |-> FALSE,
               closed |-> FALSE, released |-> FALSE, close_failed |-> FALSE,
               escaped |-> FALSE]

InitProgram ==
    /\ thrust = INITIAL_THRUST
    /\ is_connected = FALSE
    /\ is_running = FALSE
    /\ control_thread = 0
    /\ listener = 0
    /\ lst = [l \in Sessions |-> "none"]
    /\ pc = [t \in Threads |->
                IF t = Cb THEN "idle"
                ELSE IF t = Main THEN "wait"
                ELSE IF t \in CtlThreads THEN "unborn"
                ELSE "idle"]
    /\ i = [t \in SdThreads |-> 0]
    /\ tmp = [t \in KeyThreads |-> 0]
    /\ join_on = [t \in QuitThreads |-> 0]
    /\ exited = FALSE
    /\ n = [conn |-> 0, events |-> 0]
    /\ sd = [t \in SdThreads |-> NoShutdown]
    /\ hist = InitHist

\* __init__ calls open_link once, and the library reports one connection
Init ==
    /\ InitProgram
    /\ cap = [conn |-> 1, events |-> MaxEvents, free_keys |-> FALSE]

\* ------------------------------------------------- _send_stop_command
\* One pass of the for loop of _send_stop_command(count) in thread t, whose
\* caller goes on at `next`: the send succeeds, or it raises and the except
\* clause leaves the loop.  i[t] counts the send_setpoint calls of the burst.
StopSent(t, count, next) ==
    /\ i' = [i EXCEPT ![t] = IF i[t] + 1 >= count /\ next = "loop_test"
                                THEN 0 ELSE @ + 1]
    /\ pc' = [pc EXCEPT ![t] = IF i[t] + 1 >= count THEN next ELSE @]

StopFailed(t, count, next) ==
    /\ n.events < cap.events
    /\ i' = [i EXCEPT ![t] =
                IF (BreakOnFailure \/ i[t] + 1 >= count) /\ next = "loop_test"
                  THEN 0 ELSE @ + 1]
    /\ pc' = [pc EXCEPT ![t] =
                IF BreakOnFailure \/ i[t] + 1 >= count THEN next ELSE @]

\* ------------------------------------------------------ _safe_shutdown
\* Thread t enters _safe_shutdown.
EnterShutdown(t, why) ==
    /\ pc' = [pc EXCEPT ![t] = "sd_burst"]
    /\ i' = [i EXCEPT ![t] = 0]
    /\ sd' = [sd EXCEPT ![t] = [NoShutdown EXCEPT !.cause = why]]

\* the stop setpoints the current shutdown burst of thread t has sent
BurstSent(t) ==
    IF pc[t] \in {"sd_burst", "sd_close"}
      THEN i[t] - (IF sd[t].aborted THEN 1 ELSE 0)
      ELSE 0

\* thread u is in the while loop of _control_loop
Looping(u) == pc[u] \in {"loop_test", "loop_send"}

\* where _safe_shutdown returns to
AfterShutdown(t) == IF t = Cb THEN "idle" ELSE "done"

\* 1. self._send_stop_command(30): a stop setpoint is sent
SdBurstSent(t) ==
    /\ ~exited /\ pc[t] = "sd_burst"
    /\ StopSent(t, ShutdownBurst, "sd_close")
    /\ hist' = [Sent(hist, "stop") EXCEPT !.second_writer =
                  @ \/ \E u \in CtlThreads \ {t} : Looping(u)]
    /\ UNCHANGED <<shared, tmp, join_on, exited, cap, n, sd>>

\* 1. self._send_stop_command(30): the send raises
SdBurstFailed(t) ==
    /\ ~exited /\ pc[t] = "sd_burst"
    /\ StopFailed(t, ShutdownBurst, "sd_close")
    /\ n' = [n EXCEPT !.events = @ + 1]
    /\ sd' = [sd EXCEPT ![t].aborted = TRUE]
    /\ hist' = SendRaised(hist)
    /\ UNCHANGED <<shared, tmp, join_on, exited, cap>>

\* 2. if self._is_connected: close_link(); the call returns, or is not made
SdClose(t) ==
    /\ ~exited /\ pc[t] = "sd_close"
    /\ pc' = [pc EXCEPT ![t] = "sd_run"]
    /\ i' = [i EXCEPT ![t] = 0]
    /\ sd' = [sd EXCEPT ![t].full = BurstSent(t) = ShutdownBurst,
                        ![t].closed = CloseGuard(is_connected),
                        ![t].released = TRUE]
    /\ hist' = [Handled(hist, "shutdown") EXCEPT
         !.close_calls = IF CloseGuard(is_connected) THEN @ + 1 ELSE @,
         !.full_bursts = IF BurstSent(t) = ShutdownBurst THEN @ + 1 ELSE @]
    /\ UNCHANGED <<shared, tmp, join_on, exited, cap, n>>

\* 2. if self._is_connected: close_link(); the call raises, and the except
\* clause prints the error
SdCloseFailed(t) ==
    /\ ~exited /\ pc[t] = "sd_close"
    /\ CloseGuard(is_connected)
    /\ n.events < cap.events
    /\ n' = [n EXCEPT !.events = @ + 1]
    /\ pc' = [pc EXCEPT ![t] =
                IF CloseErrorCaught THEN "sd_run" ELSE AfterShutdown(t)]
    /\ i' = [i EXCEPT ![t] = 0]
    /\ sd' = [sd EXCEPT ![t].full = BurstSent(t) = ShutdownBurst,
                        ![t].closed = TRUE,
                        ![t].released = TRUE,
                        ![t].close_failed = TRUE,
                        ![t].escaped = ~CloseErrorCaught]
    /\ hist' = [Handled(hist, "shutdown") EXCEPT
         !.faulted = TRUE,
         !.close_calls = @ + 1,
         !.full_bursts = IF BurstSent(t) = ShutdownBurst THEN @ + 1 ELSE @]
    /\ UNCHANGED <<shared, tmp, join_on, exited, cap>>

\* 3. self._is_running = False
SdRun(t) ==
    /\ ~exited /\ pc[t] = "sd_run"
    /\ is_running' = FALSE
    /\ pc' = [pc EXCEPT ![t] = "sd_conn"]
    /\ UNCHANGED <<thrust, is_connected, control_thread, listener, lst,
                   i, tmp, join_on, exited, cap, n, sd, hist>>

\* 3. self._is_connected = False
SdConn(t) ==
    /\ ~exited /\ pc[t] = "sd_conn"
    /\ is_connected' = FALSE
    /\ pc' = [pc EXCEPT ![t] = "sd_listener"]
    /\ UNCHANGED <<thrust, is_running, control_thread, listener, lst,
                   i, tmp, join_on, exited, cap, n, sd, hist>>

\* 4. if self._listener and self._listener.running: self._listener.stop()
SdListener(t) ==
    /\ ~exited /\ pc[t] = "sd_listener"
    /\ lst' = IF ListenerGuard(listener, lst)
                THEN [lst EXCEPT ![listener] = "stopped"] ELSE lst
    /\ pc' = [pc EXCEPT ![t] = AfterShutdown(t)]
    /\ UNCHANGED <<thrust, is_connected, is_running, control_thread, listener,
                   i, tmp, join_on, exited, cap, n, sd, hist>>

\* -------------------------------------------------------- _control_loop
\* self._send_stop_command(5): a stop setpoint is sent
ArmBurstSent(t) ==
    /\ ~exited /\ pc[t] = "init_burst"
    /\ StopSent(t, ArmingBurst, "loop_test")
    /\ hist' = Sent(hist, "stop")
    /\ UNCHANGED <<shared, tmp, join_on, exited, cap, n, sd>>

\* self._send_stop_command(5): the send raises
ArmBurstFailed(t) ==
    /\ ~exited /\ pc[t] = "init_burst"
    /\ StopFailed(t, ArmingBurst, "loop_test")
    /\ n' = [n EXCEPT !.events = @ + 1]
    /\ hist' = SendRaised(hist)
    /\ UNCHANGED <<shared, tmp, join_on, exited, cap, sd>>

\* while self._is_running: ... finally: self._safe_shutdown()
LoopTest(t) ==
    /\ ~exited /\ pc[t] = "loop_test"
    /\ IF is_running
         THEN /\ pc' = [pc EXCEPT ![t] = "loop_send"]
              /\ UNCHANGED <<i, sd, hist>>
         ELSE /\ EnterShutdown(t, "loop_end")
              /\ hist' = [hist EXCEPT !.sd_calls = @ + 1]
    /\ UNCHANGED <<shared, tmp, join_on, exited, cap, n>>

\* self._cf.commander.send_setpoint(0, 0, 0, self.thrust); time.sleep(0.05)
LoopSend(t) ==
    /\ ~exited /\ pc[t] = "loop_send"
    /\ pc' = [pc EXCEPT ![t] = "loop_test"]
    /\ hist' = [Sent(hist, "thrust") EXCEPT
                  !.late_thrust = @ \/ hist.lost_fired]
    /\ UNCHANGED <<shared, i, tmp, join_on, exited, cap, n, sd>>

\* send_setpoint raises: except Exception (print), finally: _safe_shutdown()
LoopSendFailed(t) ==
    /\ ~exited /\ pc[t] = "loop_send"
    /\ n.events < cap.events
    /\ n' = [n EXCEPT !.events = @ + 1]
    /\ EnterShutdown(t, "send_error")
    /\ hist' = [SendRaised(hist) EXCEPT !.sd_calls = @ + 1, !.ended = TRUE]
    /\ UNCHANGED <<shared, tmp, join_on, exited, cap>>

\* ------------------------------------------------ lifecycle callbacks
\* _connected: self._is_connected = True; arming request; time.sleep(1)
ConnectedNotify ==
    /\ ~exited /\ pc[Cb] = "idle"
    /\ n.conn < cap.conn
    /\ n' = [n EXCEPT !.conn = @ + 1]
    /\ is_connected' = TRUE
    /\ pc' = [pc EXCEPT ![Cb] = "c_run"]
    /\ UNCHANGED <<thrust, is_running, control_thread, listener, lst,
                   i, tmp, join_on, exited, cap, sd, hist>>

\* _connected: self._is_running = True
ConnectedRun ==
    /\ ~exited /\ pc[Cb] = "c_run"
    /\ is_running' = TRUE
    /\ pc' = [pc EXCEPT ![Cb] = "c_thread"]
    /\ UNCHANGED <<thrust, is_connected, control_thread, listener, lst,
                   i, tmp, join_on, exited, cap, n, sd, hist>>

\* _connected: self._control_thread = Thread(target=self._control_loop);
\* start()
ConnectedStartThread ==
    /\ ~exited /\ pc[Cb] = "c_thread"
    /\ control_thread' = n.conn
    /\ pc' = [pc EXCEPT ![Cb] = "c_listener", ![Ctl(n.conn)] = ControlLoopEntry]
    /\ i' = [i EXCEPT ![Ctl(n.conn)] = 0]
    /\ UNCHANGED <<thrust, is_connected, is_running, listener, lst,
                   tmp, join_on, exited, cap, n, sd, hist>>

\* _start_keyboard_listener: self._listener = Listener(...); start()
ConnectedStartListener ==
    /\ ~exited /\ pc[Cb] = "c_listener"
    /\ listener' = n.conn
    /\ lst' = [lst EXCEPT ![n.conn] = "running"]
    /\ pc' = [pc EXCEPT ![Cb] = "idle"]
    /\ UNCHANGED <<thrust, is_connected, is_running, control_thread,
                   i, tmp, join_on, exited, cap, n, sd, hist>>

\* _disconnected: self._is_connected = False
DisconnectedNotify ==
    /\ ~exited /\ pc[Cb] = "idle"
    /\ n.events < cap.events
    /\ n' = [n EXCEPT !.events = @ + 1]
    /\ is_connected' = FALSE
    /\ pc' = [pc EXCEPT ![Cb] = "d_run"]
    /\ hist' = [Handled(hist, "disconnected") EXCEPT
                  !.ended = TRUE, !.faulted = TRUE]
    /\ UNCHANGED <<thrust, is_running, control_thread, listener, lst,
                   i, tmp, join_on, exited, cap, sd>>

\* _disconnected: self._is_running = False
DisconnectedRun ==
    /\ ~exited /\ pc[Cb] = "d_run"
    /\ is_running' = FALSE
    /\ pc' = [pc EXCEPT ![Cb] = "idle"]
    /\ UNCHANGED <<thrust, is_connected, control_thread, listener, lst,
                   i, tmp, join_on, exited, cap, n, sd, hist>>

\* _connection_failed: self._safe_shutdown()
ConnectionFailedNotify ==
    /\ ~exited /\ pc[Cb] = "idle"
    /\ n.events < cap.events
    /\ n' = [n EXCEPT !.events = @ + 1]
    /\ EnterShutdown(Cb, "failed")
    /\ hist' = [Handled(hist, "failed") EXCEPT
                  !.sd_calls = @ + 1, !.ended = TRUE, !.faulted = TRUE]
    /\ UNCHANGED <<shared, tmp, join_on, exited, cap>>

\* _connection_lost: self._safe_shutdown()
ConnectionLostNotify ==
    /\ ~exited /\ pc[Cb] = "idle"
    /\ n.events < cap.events
    /\ n' = [n EXCEPT !.events = @ + 1]
    /\ EnterShutdown(Cb, "lost")
    /\ hist' = [Handled(hist, "lost") EXCEPT
                  !.sd_calls = @ + 1, !.ended = TRUE, !.faulted = TRUE,
                  !.lost_fired = TRUE]
    /\ UNCHANGED <<shared, tmp, join_on, exited, cap>>

\* -------------------------------------------------------- _on_key_press
\* The l-th listener delivers key k to _on_key_press: the guard, and the
\* branch taken.  An arrow key computes the new thrust, stored by KeyStore;
\* with any other outcome but escape the handler returns at once.
KeyPress(l, k) ==
    /\ ~exited /\ pc[Key(l)] = "idle" /\ lst[l] = "running"
    /\ LET b == IF KeyGuard(is_running, is_connected)
                  THEN KeyBranch(k) ELSE "return"
           free == cap.free_keys /\ b \in {"up", "down"}
       IN  /\ free \/ n.events < cap.events
           /\ n' = [n EXCEPT !.events = IF free THEN @ ELSE @ + 1]
           /\ CASE b = "up" ->
                     /\ tmp' = [tmp EXCEPT ![Key(l)] = IncreaseThrust(thrust)]
                     /\ pc' = [pc EXCEPT ![Key(l)] = "k_up"]
                     /\ hist' = hist
                [] b = "down" ->
                     /\ tmp' = [tmp EXCEPT ![Key(l)] = DecreaseThrust(thrust)]
                     /\ pc' = [pc EXCEPT ![Key(l)] = "k_down"]
                     /\ hist' = hist
                [] b = "esc" ->
                     /\ pc' = [pc EXCEPT ![Key(l)] = "q_stop"]
                     /\ hist' = [hist EXCEPT !.quit_key = TRUE,
                                             !.ended = TRUE]
                     /\ tmp' = tmp
                [] OTHER ->
                     /\ hist' = [hist EXCEPT
                          !.other_key = @ \/ k = "other",
                          !.off_key =
                             @ \/ ~KeyGuard(is_running, is_connected)]
                     /\ UNCHANGED <<pc, tmp>>
    /\ UNCHANGED <<shared, i, join_on, exited, cap, sd>>

\* self.thrust = <the value computed>
KeyStore(l) ==
    /\ ~exited /\ pc[Key(l)] \in {"k_up", "k_down"}
    /\ thrust' = tmp[Key(l)]
    /\ tmp' = [tmp EXCEPT ![Key(l)] = 0]
    /\ pc' = [pc EXCEPT ![Key(l)] = "idle"]
    /\ UNCHANGED <<is_connected, is_running, control_thread, listener, lst,
                   i, join_on, exited, cap, n, sd, hist>>

\* -------------------------------------------------------- _quit_program
\* self._is_running = False
QuitStop(t) ==
    /\ ~exited /\ pc[t] = "q_stop"
    /\ is_running' = FALSE
    /\ pc' = [pc EXCEPT ![t] = "q_join"]
    /\ UNCHANGED <<thrust, is_connected, control_thread, listener, lst,
                   i, tmp, join_on, exited, cap, n, sd, hist>>

\* if self._control_thread and self._control_thread.is_alive(): join(...)
QuitJoin(t) ==
    /\ ~exited /\ pc[t] = "q_join"
    /\ IF JoinGuard(control_thread)
         THEN /\ pc' = [pc EXCEPT ![t] = "q_wait"]
              /\ join_on' = [join_on EXCEPT ![t] = control_thread]
         ELSE /\ pc' = [pc EXCEPT ![t] = "q_exit"]
              /\ join_on' = join_on
    /\ UNCHANGED <<shared, i, tmp, exited, cap, n, sd, hist>>

\* join(timeout=2.0) returns because the control thread has ended
QuitJoined(t) ==
    /\ ~exited /\ pc[t] = "q_wait"
    /\ ~Alive(Ctl(join_on[t]))
    /\ pc' = [pc EXCEPT ![t] = "q_exit"]
    /\ UNCHANGED <<shared, i, tmp, join_on, exited, cap, n, sd, hist>>

\* join(timeout=2.0) returns because the two seconds are over
QuitTimeout(t) ==
    /\ ~exited /\ pc[t] = "q_wait"
    /\ Alive(Ctl(join_on[t]))
    /\ pc' = [pc EXCEPT ![t] = "q_exit"]
    /\ UNCHANGED <<shared, i, tmp, join_on, exited, cap, n, sd, hist>>

\* sys.exit(0) in a listener thread: SystemExit ends that thread only, and
\* with it the listener
QuitExitKey(l) ==
    /\ ~exited /\ pc[Key(l)] = "q_exit"
    /\ pc' = [pc EXCEPT ![Key(l)] = "dead"]
    /\ lst' = [lst EXCEPT ![l] = "stopped"]
    /\ UNCHANGED <<thrust, is_connected, is_running, control_thread, listener,
                   i, tmp, join_on, exited, cap, n, sd, hist>>

\* sys.exit(0) in the main thread: the process exits, and its daemon
\* threads (control threads, listeners) end where they are
QuitExitMain ==
    /\ ~exited /\ pc[Main] = "q_exit"
    /\ exited' = TRUE
    /\ pc' = [pc EXCEPT ![Main] = "dead"]
    /\ UNCHANGED <<shared, i, tmp, join_on, cap, n, sd, hist>>

\* ------------------------------------------------------------ __main__
\* except KeyboardInterrupt: controller._quit_program()
Interrupt ==
    /\ ~exited /\ pc[Main] = "wait"
    /\ n.events < cap.events
    /\ n' = [n EXCEPT !.events = @ + 1]
    /\ pc' = [pc EXCEPT ![Main] = "q_stop"]
    /\ hist' = [hist EXCEPT !.ended = TRUE, !.faulted = TRUE]
    /\ UNCHANGED <<shared, i, tmp, join_on, exited, cap, sd>>

\* ---------------------------------------------------------------- Next
\* the steps of the program's threads
ThreadStep ==
    \/ \E t \in SdThreads :
         SdBurstSent(t) \/ SdClose(t) \/ SdRun(t) \/ SdConn(t) \/ SdListener(t)
    \/ \E t \in CtlThreads : ArmBurstSent(t) \/ LoopTest(t) \/ LoopSend(t)
    \/ ConnectedRun \/ ConnectedStartThread \/ ConnectedStartListener
    \/ DisconnectedRun
    \/ \E l \in Sessions : KeyStore(l) \/ QuitExitKey(l)
    \/ \E t \in QuitThreads :
         QuitStop(t) \/ QuitJoin(t) \/ QuitJoined(t) \/ QuitTimeout(t)
    \/ QuitExitMain

\* the inputs: notifications of the flight library, key presses, interrupt
Input ==
    \/ ConnectedNotify \/ DisconnectedNotify
    \/ ConnectionFailedNotify \/ ConnectionLostNotify
    \/ \E l \in Sessions : \E k \in Keys : KeyPress(l, k)
    \/ Interrupt

\* a send_setpoint call raises, a close_link call raises
SendFailure ==
    \/ \E t \in SdThreads : SdBurstFailed(t) \/ SdCloseFailed(t)
    \/ \E t \in CtlThreads : ArmBurstFailed(t) \/ LoopSendFailed(t)

Next == ThreadStep \/ Input \/ SendFailure

Spec == Init /\ [][Next]_vars

\* The library delivers _connected more than once, and one other event; no call
\* of the flight library raises.
InitReconnect ==
    /\ InitProgram
    /\ cap = [conn |-> MaxConnected, events |-> 1, free_keys |-> FALSE]

NextReliable == ThreadStep \/ Input

SpecReconnect == InitReconnect /\ [][NextReliable]_vars

\* Any number of arrow key presses, and one other event; no call of the
\* flight library raises.
InitKeys ==
    /\ InitProgram
    /\ cap = [conn |-> 1, events |-> 1, free_keys |-> TRUE]

SpecKeys == InitKeys /\ [][NextReliable]_vars

\* ============================================================ properties
\* Stop setpoints the shutdown bursts in progress in Ctl(1)..Ctl(k) have sent.
RECURSIVE CtlBurstsSent(_)
CtlBurstsSent(k) ==
    IF k = 0 THEN 0 ELSE BurstSent(Ctl(k)) + CtlBurstsSent(k - 1)

\* Stop setpoints sent by _safe_shutdown so far: the complete bursts and the
\* bursts in progress.
SdStopsSent ==
    ShutdownBurst * hist.full_bursts + BurstSent(Cb)
        + CtlBurstsSent(MaxConnected)

\* No program thread can take a step: only the environment can act.
Quiescent ==
    /\ ~exited
    /\ pc[Cb] = "idle"
    /\ pc[Main] = "wait"
    /\ \A t \in CtlThreads : pc[t] \in {"unborn", "done"}
    /\ \A t \in KeyThreads : pc[t] \in {"idle", "dead"}

\* the three error events of the error taxonomy, as causes of a shutdown
ErrorCauses == {"failed", "lost", "send_error"}

\* C1: thrust stays within [MIN_THRUST, MAX_THRUST] in every reachable state,
\* for every sequence of key presses interleaved with the other threads.
C1_ThrustInRange == MIN_THRUST <= thrust /\ thrust <= MAX_THRUST

\* an Increase at the upper limit and a store of the clamped value
C1_Witness ==
    /\ thrust = MAX_THRUST
    /\ \E l \in Sessions : pc[Key(l)] = "k_up" /\ tmp[Key(l)] = MAX_THRUST

C3_NoThrustAfterLost == ~hist.late_thrust

\* C4: the _safe_shutdown invocations of one session send at most one burst,
\* at most 30 stop setpoints in total.
C4_ShutdownIdempotent == SdStopsSent <= ShutdownBurst

\* C5: whatever _connected notifications arrive, at most one control thread
\* and at most one keyboard listener are alive.
C5_OneSenderOneListener ==
    /\ Cardinality({t \in CtlThreads : Alive(t)}) <= 1
    /\ Cardinality({l \in Sessions : lst[l] = "running"}) <= 1

\* C6: no thread other than the periodic sender sends a setpoint while the
\* control loop is looping.
C6_SingleWriter == ~hist.second_writer

\* C7 as stated: the shutdown that an error event (connection failed,
\* connection lost, a failed send in the periodic loop) starts calls
\* close_link after its burst.
C7_ErrorClosesLink ==
    \A t \in SdThreads :
        (sd[t].cause \in ErrorCauses /\ sd[t].released) => sd[t].closed

\* C7 as amended: the shutdown that an error event starts makes at least one
\* stop send before its close step, and at its close step calls close_link
\* exactly when _is_connected is still set.
C7_ErrorClosesLinkIfConnected ==
    [][\A t \in SdThreads :
          (sd[t].cause \in ErrorCauses /\ pc[t] = "sd_close"
             /\ pc'[t] # "sd_close") =>
            /\ i[t] >= 1
            /\ pc'[t] = "sd_run"
            /\ sd'[t].closed = is_connected
            /\ hist'.close_calls =
                 hist.close_calls + (IF is_connected THEN 1 ELSE 0)]_vars

\* a connection failure before any connection: burst, no close_link; then a
\* failed send in the periodic loop: burst, close_link
C7_Witness ==
    /\ sd[Cb].cause = "failed" /\ sd[Cb].released /\ ~sd[Cb].closed
    /\ sd[Ctl(1)].cause = "send_error" /\ sd[Ctl(1)].released
    /\ sd[Ctl(1)].closed

\* C8 as stated: a shutdown whose burst was cut short by a failed send still
\* calls close_link.
C8_AbortedBurstCloses ==
    \A t \in SdThreads : (sd[t].aborted /\ sd[t].released) => sd[t].closed

\* C8 as amended: a failed send ends the shutdown burst at once, and the
\* shutdown goes on: its close step calls close_link exactly when
\* _is_connected is still set, and its next steps clear _is_running and
\* _is_connected.
C8_AbortedBurstGoesOn ==
    [][\A t \in SdThreads :
          /\ sd'[t].aborted => pc'[t] # "sd_burst"
          /\ (sd[t].aborted /\ pc'[t] # pc[t]) =>
                /\ pc[t] = "sd_close" =>
                     (pc'[t] = "sd_run" /\ sd'[t].closed = is_connected)
                /\ pc[t] = "sd_run" => (pc'[t] = "sd_conn" /\ ~is_running')
                /\ pc[t] = "sd_conn" =>
                     (pc'[t] = "sd_listener" /\ ~is_connected')]_vars

C8_Witness ==
    \E t \in SdThreads :
        /\ sd[t].aborted /\ sd[t].released
        /\ pc[t] = AfterShutdown(t)
        /\ ~is_running /\ ~is_connected

\* C9: after an interrupt, the join of _quit_program on the control thread
\* does not let the process exit before that thread has sent its shutdown
\* burst and closed the link.
C9_ShutdownBeforeExit ==
    (exited /\ join_on[Main] # 0) =>
        /\ pc[Ctl(join_on[Main])] = "done"
        /\ sd[Ctl(join_on[Main])].full
        /\ sd[Ctl(join_on[Main])].closed

\* C10: once the session has ended and every thread has run as far as it
\* can, the control loop has exited, _is_running is False and no keyboard
\* listener is running.
C10_EndsQuiet ==
    (Quiescent /\ hist.ended) =>
        /\ ~is_running
        /\ \A l \in Sessions : lst[l] # "running"

\* k Increases, and k Decreases, one after the other from thrust t
RECURSIVE Increases(_, _)
Increases(k, t) == IF k = 0 THEN t ELSE Increases(k - 1, IncreaseThrust(t))

RECURSIVE Decreases(_, _)
Decreases(k, t) == IF k = 0 THEN t ELSE Decreases(k - 1, DecreaseThrust(t))

\* C11: in a running and connected session an Increase sets thrust to
\* min(thrust + 500, 60000) and a Decrease to max(thrust - 500, 10000); so
\* 5 Increases from the initial 20000 give 22500, 10 Decreases more give
\* 17500, and 15 or more further Decreases leave thrust at 10000.
C11_KeySteps ==
    [][\A l \in Sessions :
          /\ (pc[Key(l)] = "idle" /\ pc'[Key(l)] \in {"k_up", "k_down"}) =>
                (is_running /\ is_connected)
          /\ (pc[Key(l)] = "k_up" /\ pc'[Key(l)] = "idle") =>
                /\ thrust' = Min(thrust + 500, 60000)
                /\ Increases(5, INITIAL_THRUST) = 22500
          /\ (pc[Key(l)] = "k_down" /\ pc'[Key(l)] = "idle") =>
                /\ thrust' = Max(thrust - 500, 10000)
                /\ Decreases(10, 22500) = 17500
                /\ \A k \in 15..20 : Decreases(k, 17500) = 10000]_vars

\* a Decrease at the lower limit, about to store the clamped value
C11_Witness ==
    /\ thrust = MIN_THRUST
    /\ \E l \in Sessions : pc[Key(l)] = "k_down" /\ tmp[Key(l)] = MIN_THRUST

\* C12: a key other than up, down and escape, delivered in any state,
\* changes neither thrust nor _is_running nor _is_connected, sends nothing
\* and raises nothing: the handler returns and every thread is where it was.
C12_OtherKeyIgnored ==
    [][\A l \in Sessions :
          KeyPress(l, "other") =>
             UNCHANGED <<shared, pc, i, tmp, join_on, exited, sd>>]_vars

\* another key has come in a running and connected session
C12_Witness ==
    /\ hist.other_key /\ ~hist.off_key
    /\ is_running /\ is_connected
    /\ thrust = INITIAL_THRUST

\* C18: thrust is changed only by the key handler, and only by a handler
\* that found _is_running and _is_connected set: a key, whichever it is,
\* delivered with one of the two flags down changes nothing, and every step
\* other than the handler's store leaves thrust unchanged.
C18_ThrustFrame ==
    [][/\ thrust' # thrust =>
             \E l \in Sessions :
                 pc[Key(l)] \in {"k_up", "k_down"} /\ pc'[Key(l)] = "idle"
       /\ \A l \in Sessions : \A k \in Keys :
             (~(is_running /\ is_connected) /\ KeyPress(l, k)) =>
                 UNCHANGED <<shared, pc, i, tmp, join_on, exited, sd>>]_vars

\* an arrow or escape key has come with a flag down, and nothing moved
C18_Witness ==
    /\ hist.off_key /\ ~hist.other_key
    /\ ~(is_running /\ is_connected)
    /\ \A l \in Sessions : pc[Key(l)] = "idle"

\* thread t is inside _safe_shutdown
InShutdown(t) ==
    pc[t] \in {"sd_burst", "sd_close", "sd_run", "sd_conn", "sd_listener"}

\* C13: no failure leaves _safe_shutdown: after a send_setpoint or a
\* close_link call of it has raised, it still returns from its last
\* statement, and when it returns _is_running and _is_connected are False
\* and no keyboard listener is running.
C13_ShutdownContainsErrors ==
    [][\A t \in SdThreads :
          (InShutdown(t) /\ pc'[t] = AfterShutdown(t)) =>
             /\ pc[t] = "sd_listener"
             /\ ~is_running' /\ ~is_connected'
             /\ \A l \in Sessions : lst'[l] # "running"]_vars

\* a shutdown whose close_link call raised has returned
C13_Witness ==
    \E t \in SdThreads :
        /\ sd[t].close_failed
        /\ pc[t] = AfterShutdown(t)
        /\ ~is_running /\ ~is_connected
        /\ lst[1] = "stopped"

\* C14: the last setpoint sent before a close_link call is a stop setpoint,
\* unless a send of the burst of that shutdown raised.
C14_StopBeforeClose ==
    [][\A t \in SdThreads :
          (pc[t] = "sd_close" /\ pc'[t] # "sd_close" /\ sd'[t].closed) =>
             (hist.last_sent = "stop" \/ sd[t].aborted)]_vars

\* C15: open_link is called once, by __init__: no handler of a connection
\* failure, a connection loss or a disconnection and no shutdown calls it
\* again.
C15_NoReconnect == hist.open_calls = 1

\* a connection was lost and the shutdown it started has returned
C15_Witness ==
    /\ hist.lost_fired /\ n.conn = 1
    /\ sd[Cb].cause = "lost" /\ sd[Cb].released /\ pc[Cb] = "idle"
    /\ hist.open_calls = 1

\* C16: after a close_link call no thread calls send_setpoint.
C16_NoSendAfterClose == ~hist.sent_closed

\* C17: close_link is called at most once in a session.
C17_CloseOnce == hist.close_calls <= 1

\* C19: a control thread starts with its burst of stop setpoints, leaves it
\* for the loop only when its fifth send has returned or a send has raised,
\* and sends a thrust setpoint only from the loop.
C19_ArmBeforeThrust ==
    [][\A t \in CtlThreads :
          /\ (pc[t] = "unborn" /\ pc'[t] # "unborn") =>
                (pc'[t] = "init_burst" /\ i'[t] = 0)
          /\ (pc[t] = "init_burst" /\ (pc'[t] # pc[t] \/ i'[t] # i[t])) =>
                \/ n'.events = n.events + 1 /\ pc'[t] = "loop_test"
                \/ /\ hist'.last_sent = "stop"
                   /\ IF i[t] + 1 = 5 THEN pc'[t] = "loop_test"
                        ELSE pc'[t] = "init_burst" /\ i'[t] = i[t] + 1
          /\ pc'[t] = "loop_send" => pc[t] \in {"loop_test", "loop_send"}
          /\ hist'.last_sent = "thrust" =>
                (hist.last_sent = "thrust" \/
                   \E u \in CtlThreads :
                       pc[u] = "loop_send" /\ pc'[u] = "loop_test")]_vars

\* a control thread that sent its five stop setpoints is about to send its
\* first thrust setpoint
C19_Witness ==
    /\ pc[Ctl(1)] = "loop_send"
    /\ hist.last_sent = "stop"
    /\ ~hist.faulted

====
